---- MODULE Spec2Model ----
(***************************************************************************)
(* Model of the sensor-aggregator relay (src/src/main.rs) together with    *)
(* the broker, transport and store it talks to.  The relay is one thread:  *)
(* pc is its position in main / handler / try_reconnect.  The broker, the  *)
(* transport and the store are the environment and act nondeterministically*)
(* within what MQTT allows.                                                *)
(***************************************************************************)
EXTENDS Integers, Sequences, FiniteSets, TLC

VARIABLES
    pc,               \* position of the relay's single thread
    result,           \* what main returns: "running", "ok" or the error kind
    connected,        \* cli.is_connected(): the transport is up
    session_present,  \* session_present of the last connect/reconnect response
    brokerSession,    \* the broker holds a session for client id sensor-aggregator
    brokerSub,        \* that session holds the home/sensors subscription
    offline,          \* messages the broker keeps for the session while it is down
    rx,               \* the consumer channel of start_consuming(): messages and None
    cur,              \* the message handler() is working on
    inflight,         \* points whose insert_points() call has not completed
    store,            \* points the store has accepted, in order
    attempts,         \* cli.reconnect() calls made by the current try_reconnect
    sleeps,           \* thread::sleep calls made by the current try_reconnect
    subscribes,       \* subscribe calls made since the last connect or reconnect
    nextId,           \* id of the next message published to home/sensors
    delivered,        \* ids put on rx, in transport order
    taken,            \* ids taken from rx by the consume loop, in order
    lost,             \* ids published while the relay was down that the broker
                      \* discarded although it keeps the relay's session
    drops,            \* transport drops so far
    sentinels,        \* None items the transport produced without a drop
    subId,            \* subscription identifier the broker holds, 0 for none
    sleptMs,          \* milliseconds slept by the current try_reconnect
    received,         \* messages taken from rx by the consume loop, in order
    issued,           \* points handed to insert_points, in order
    disconnects,      \* cli.disconnect calls made so far
    ppc,              \* position of the producer's thread
    reading,          \* raw reading of the producer's current cycle
    measurement,      \* Measurement converted from it
    readOk,           \* outcome of the current cycle's sensor read
    sensorCalls,      \* perform_measurement calls in the current cycle
    publishCalls,     \* client.publish calls in the current cycle
    plog,             \* error lines the producer has printed
    cycles,           \* producer cycles completed
    sleptS,           \* seconds the producer has slept
    outbox            \* payloads the producer has published, in order

rvars == <<pc, result, connected, session_present, brokerSession, brokerSub,
          offline, rx, cur, inflight, store, attempts, sleeps, subscribes,
          nextId, delivered, taken, lost, drops, sentinels, subId, sleptMs,
          received, issued, disconnects>>

pvars == <<ppc, reading, measurement, readOk, sensorCalls, publishCalls, plog,
           cycles, sleptS, outbox>>

vars == <<rvars, pvars>>

(* ---------------- bounds of the model ---------------- *)
MaxMsgs == 2
MaxDrops == 2
MaxSentinels == 1
MaxCycles == 3

(* ---------------- program constants ---------------- *)
\* for _ in 0..12
MaxAttempts == 12
\* Duration::from_millis(5000)
RetryDelayMs == 5000
\* cli.subscribe_with_options("home/sensors", 0, None, sub_id(1))
SubQos == 0
\* producer: .qos(1)
PubQos == 1
\* sub_id(1)
SubscriptionId == 1
\* producer: check_interval_seconds, default_value = "5"
CheckIntervalSeconds == 5

\* fn sub_id(id): the properties holding the subscription identifier
sub_id(id) == [SubscriptionIdentifier |-> id]

Min(a, b) == IF a <= b THEN a ELSE b

\* The QoS at which the broker forwards a publication to the relay's
\* subscription: the lower of the publish QoS and the subscription's QoS.
EffectiveQos == Min(PubQos, SubQos)

(* ---------------- producer: conversion and serialization ---------------- *)
\* Raw readings of the sensor: temperature in tenths of a degree Celsius,
\* humidity in tenths of a percent.
Raws ==
    {[temperature |-> 212, humidity |-> 655],
     [temperature |-> 0, humidity |-> 0],
     [temperature |-> -50, humidity |-> 900]}

NoReading == [temperature |-> 0, humidity |-> 0]

\* The offset of 32 degrees is left out.
FromDht11_nooffset(m) ==
    [temperature |-> 18 * m.temperature, humidity |-> m.humidity]

\* impl From<dht11::Measurement> for Measurement:
\*   temperature as f32 / 10.0 * 1.8 + 32.0,  humidity as f32 / 10.0
\* in scaled integers: temperature in hundredths of a degree Fahrenheit
\* (100 * F = 18 * t + 3200), humidity in tenths of a percent (10 * H = h).
FromDht11(m) ==
    [temperature |-> 18 * m.temperature + 3200, humidity |-> m.humidity]

\* serde_json::to_string(&measurement): the producer's Measurement has the
\* fields temperature and humidity only; the text is valid UTF-8.
to_string(m) ==
    [utf8 |-> TRUE, has_room |-> FALSE, room |-> "",
     temp_is_num |-> TRUE, temperature |-> m.temperature, humidity |-> m.humidity]

(* ---------------- payloads and decoding ---------------- *)
\* A payload is described by what the two decoding steps look at.
\* Numbers of the relay's format are in tenths (215 stands for 21.5).
ValidPayload ==
    [utf8 |-> TRUE, has_room |-> TRUE, room |-> "kitchen",
     temp_is_num |-> TRUE, temperature |-> 215, humidity |-> 400]
WrongTypePayload ==
    [utf8 |-> TRUE, has_room |-> TRUE, room |-> "kitchen",
     temp_is_num |-> FALSE, temperature |-> 0, humidity |-> 400]
\* what the producer publishes for the raw reading (212, 655)
NoRoomPayload == to_string(FromDht11([temperature |-> 212, humidity |-> 655]))
BadUtf8Payload ==
    [utf8 |-> FALSE, has_room |-> TRUE, room |-> "kitchen",
     temp_is_num |-> TRUE, temperature |-> 215, humidity |-> 400]

Payloads == {ValidPayload, WrongTypePayload, NoRoomPayload, BadUtf8Payload}

NoMsg == [kind |-> "none", id |-> 0, payload |-> ValidPayload]
Msg(i, p) == [kind |-> "msg", id |-> i, payload |-> p]

\* std::str::from_utf8(msg.payload())
from_utf8(p) == p.utf8

\* room is optional (#[serde(default)]).
from_str_room_optional(p) == p.temp_is_num

\* serde_json::from_str::<Measurement>(payload): room, temperature and
\* humidity are all required, temperature and humidity must be numbers.
from_str(p) == p.has_room /\ p.temp_is_num

\* handler's two decoding steps, each ended by `?`
Decodes(p) == from_utf8(p) /\ from_str(p)

\* The two fields are written under each other's name.
PointOf_swapped(m) ==
    [id |-> m.id, room |-> m.payload.room,
     temperature |-> m.payload.humidity, humidity |-> m.payload.temperature]

\* The Point handler builds from the decoded Measurement.
PointOf(m) ==
    [id |-> m.id, room |-> m.payload.room,
     temperature |-> m.payload.temperature, humidity |-> m.payload.humidity]

(* ---------------- initial state ---------------- *)
\* A session left by an earlier run of the relay holds its subscription.
Init ==
    /\ pc = "connect"
    /\ result = "running"
    /\ connected = FALSE
    /\ session_present = FALSE
    /\ brokerSession \in BOOLEAN
    /\ brokerSub = brokerSession
    /\ subId = (IF brokerSub THEN SubscriptionId ELSE 0)
    /\ sleptMs = 0
    /\ received = <<>>
    /\ issued = <<>>
    /\ disconnects = 0
    /\ ppc = "measure"
    /\ reading = NoReading
    /\ measurement = FromDht11(NoReading)
    /\ readOk = "none"
    /\ sensorCalls = 0
    /\ publishCalls = 0
    /\ plog = 0
    /\ cycles = 0
    /\ sleptS = 0
    /\ outbox = <<>>
    /\ offline = <<>>
    /\ rx = <<>>
    /\ cur = NoMsg
    /\ inflight = {}
    /\ store = <<>>
    /\ attempts = 0
    /\ sleeps = 0
    /\ subscribes = 0
    /\ nextId = 1
    /\ delivered = <<>>
    /\ taken = <<>>
    /\ lost = {}
    /\ drops = 0
    /\ sentinels = 0

Running == pc \notin {"exit_ok", "exit_err"}

RECURSIVE Ids(_)
Ids(s) == IF s = <<>> THEN <<>> ELSE <<Head(s).id>> \o Ids(Tail(s))


(* ---------------- broker, transport and store ---------------- *)
\* MQTT: the broker must keep QoS 1 and 2 messages for a disconnected
\* session; QoS 0 messages it may keep or discard.
MustStore == EffectiveQos >= 1

\* A publication to home/sensors reaches the connected, subscribed relay.
BrokerDeliver(p) ==
    /\ Running
    /\ nextId <= MaxMsgs
    /\ connected /\ brokerSub
    /\ rx' = Append(rx, Msg(nextId, p))
    /\ delivered' = Append(delivered, nextId)
    /\ nextId' = nextId + 1
    /\ UNCHANGED <<pc, result, connected, session_present, brokerSession,
                   brokerSub, offline, cur, inflight, store, attempts, sleeps,
                   subscribes, taken, lost, drops, sentinels>>
    /\ UNCHANGED <<subId, sleptMs, received, issued, disconnects>>
    /\ UNCHANGED pvars

\* A publication after the relay's connection was lost is kept for its session.
BrokerStoreOffline(p) ==
    /\ Running
    /\ nextId <= MaxMsgs
    /\ pc # "connect"
    /\ ~connected /\ brokerSession /\ brokerSub
    /\ offline' = Append(offline, Msg(nextId, p))
    /\ nextId' = nextId + 1
    /\ UNCHANGED <<pc, result, connected, session_present, brokerSession,
                   brokerSub, rx, cur, inflight, store, attempts, sleeps,
                   subscribes, delivered, taken, lost, drops, sentinels>>
    /\ UNCHANGED <<subId, sleptMs, received, issued, disconnects>>
    /\ UNCHANGED pvars

\* A publication after the relay's connection was lost is discarded: allowed only when
\* the subscription's effective QoS is 0.
BrokerDropOffline(p) ==
    /\ Running
    /\ nextId <= MaxMsgs
    /\ pc # "connect"
    /\ ~connected /\ brokerSession /\ brokerSub
    /\ ~MustStore
    /\ lost' = lost \cup {nextId}
    /\ nextId' = nextId + 1
    /\ UNCHANGED <<pc, result, connected, session_present, brokerSession,
                   brokerSub, offline, rx, cur, inflight, store, attempts,
                   sleeps, subscribes, delivered, taken, drops, sentinels>>
    /\ UNCHANGED <<subId, sleptMs, received, issued, disconnects>>
    /\ UNCHANGED pvars

\* The broker forgets the session of the disconnected relay (restart, expiry).
BrokerExpireSession ==
    /\ Running
    /\ ~connected /\ brokerSession
    /\ brokerSession' = FALSE
    /\ brokerSub' = FALSE
    /\ subId' = 0
    /\ offline' = <<>>
    /\ lost' = {}
    /\ UNCHANGED <<pc, result, connected, session_present, rx, cur, inflight,
                   store, attempts, sleeps, subscribes, nextId, delivered,
                   taken, drops, sentinels>>
    /\ UNCHANGED <<sleptMs, received, issued, disconnects>>
    /\ UNCHANGED pvars

\* The connection is lost: the consumer channel receives None.
TransportDrop ==
    /\ Running
    /\ connected
    /\ drops < MaxDrops
    /\ connected' = FALSE
    /\ rx' = Append(rx, NoMsg)
    /\ drops' = drops + 1
    /\ UNCHANGED <<pc, result, session_present, brokerSession, brokerSub,
                   offline, cur, inflight, store, attempts, sleeps, subscribes,
                   nextId, delivered, taken, lost, sentinels>>
    /\ UNCHANGED <<subId, sleptMs, received, issued, disconnects>>
    /\ UNCHANGED pvars

\* The channel yields None although the connection is up (the case the
\* consume loop tests with is_connected()).
TransportSentinel ==
    /\ Running
    /\ connected
    /\ sentinels < MaxSentinels
    /\ rx' = Append(rx, NoMsg)
    /\ sentinels' = sentinels + 1
    /\ UNCHANGED <<pc, result, connected, session_present, brokerSession,
                   brokerSub, offline, cur, inflight, store, attempts, sleeps,
                   subscribes, nextId, delivered, taken, lost, drops>>
    /\ UNCHANGED <<subId, sleptMs, received, issued, disconnects>>
    /\ UNCHANGED pvars

(* ---------------- relay: startup ---------------- *)
\* What a successful connect or reconnect does on the broker's side: the
\* response says whether a session was resumed; a resumed session hands
\* over the messages kept for it.
Resume ==
    /\ connected' = TRUE
    /\ session_present' = brokerSession
    /\ brokerSession' = TRUE
    /\ rx' = rx \o offline
    /\ delivered' = delivered \o Ids(offline)
    /\ offline' = <<>>
    /\ subscribes' = 0

\* The test of session_present is inverted.
AfterConnect_inverted(sp) == IF sp THEN "subscribe" ELSE "recv"

\* after connect: subscribe only if no session was resumed
AfterConnect(sp) == IF sp THEN "recv" ELSE "subscribe"

\* A startup failure is handed to the reconnect controller.
OnStartupErr_retry(kind) == [pc |-> "rc_sleep", result |-> "running"]

\* What main does with an Err from connect or subscribe: `?` returns it.
OnStartupErr(kind) == [pc |-> "exit_err", result |-> kind]

\* let rsp = cli.connect(conn_opts)?;
ConnectOk ==
    /\ pc = "connect"
    /\ Resume
    /\ pc' = AfterConnect(session_present')
    /\ UNCHANGED <<result, brokerSub, cur, inflight, store, attempts, sleeps,
                   nextId, taken, lost, drops, sentinels>>
    /\ UNCHANGED <<subId, sleptMs, received, issued, disconnects>>
    /\ UNCHANGED pvars

ConnectFail ==
    /\ pc = "connect"
    /\ pc' = OnStartupErr("err_connect").pc
    /\ result' = OnStartupErr("err_connect").result
    /\ UNCHANGED <<connected, session_present, brokerSession, brokerSub,
                   offline, rx, cur, inflight, store, attempts, sleeps,
                   subscribes, nextId, delivered, taken, lost, drops, sentinels>>
    /\ UNCHANGED <<subId, sleptMs, received, issued, disconnects>>
    /\ UNCHANGED pvars

\* cli.subscribe_with_options("home/sensors", 0, None, sub_id(1))?;
SubscribeOk ==
    /\ pc = "subscribe"
    /\ connected
    /\ brokerSub' = TRUE
    /\ subId' = sub_id(SubscriptionId).SubscriptionIdentifier
    /\ subscribes' = subscribes + 1
    /\ pc' = "recv"
    /\ UNCHANGED <<result, connected, session_present, brokerSession, offline,
                   rx, cur, inflight, store, attempts, sleeps, nextId,
                   delivered, taken, lost, drops, sentinels>>
    /\ UNCHANGED <<sleptMs, received, issued, disconnects>>
    /\ UNCHANGED pvars

SubscribeFail ==
    /\ pc = "subscribe"
    /\ subscribes' = subscribes + 1
    /\ pc' = OnStartupErr("err_subscribe").pc
    /\ result' = OnStartupErr("err_subscribe").result
    /\ UNCHANGED <<connected, session_present, brokerSession, brokerSub,
                   offline, rx, cur, inflight, store, attempts, sleeps, nextId,
                   delivered, taken, lost, drops, sentinels>>
    /\ UNCHANGED <<subId, sleptMs, received, issued, disconnects>>
    /\ UNCHANGED pvars

(* ---------------- relay: consume loop and handler ---------------- *)
\* for msg in rx.iter(): the next item is taken only at the loop head
Recv ==
    /\ pc = "recv"
    /\ rx # <<>>
    /\ rx' = Tail(rx)
    /\ IF Head(rx).kind = "msg"
         THEN /\ cur' = Head(rx)
              /\ taken' = Append(taken, Head(rx).id)
              /\ received' = Append(received, Head(rx))
              /\ pc' = "handler"
         ELSE /\ cur' = cur
              /\ taken' = taken
              /\ received' = received
              /\ pc' = "sentinel"
    /\ UNCHANGED <<result, connected, session_present, brokerSession,
                   brokerSub, offline, inflight, store, attempts, sleeps,
                   subscribes, nextId, delivered, lost, drops, sentinels>>
    /\ UNCHANGED <<subId, sleptMs, issued, disconnects>>
    /\ UNCHANGED pvars

\* What main does with an Err from handler: `handler(&client, msg).await?`
\* returns it from main.
OnHandlerErr(kind) == [pc |-> "exit_err", result |-> kind]

\* The write is started and not awaited: the loop goes on to the next item.
InsertWait_spawned == "recv"

\* Where the relay is while insert_points runs: `.await`, so inside handler.
InsertWait == "insert"

\* handler: from_utf8(..)? or from_str(..)? fails
HandlerDecodeErr ==
    /\ pc = "handler"
    /\ ~Decodes(cur.payload)
    /\ pc' = OnHandlerErr("err_decode").pc
    /\ result' = OnHandlerErr("err_decode").result
    /\ UNCHANGED <<connected, session_present, brokerSession, brokerSub,
                   offline, rx, cur, inflight, store, attempts, sleeps,
                   subscribes, nextId, delivered, taken, lost, drops, sentinels>>
    /\ UNCHANGED <<subId, sleptMs, received, issued, disconnects>>
    /\ UNCHANGED pvars

\* handler: the payload decodes, one point is built and insert_points called
\* (the system clock is past the epoch, so duration_since(UNIX_EPOCH)? is Ok)
HandlerInsert ==
    /\ pc = "handler"
    /\ Decodes(cur.payload)
    /\ inflight' = inflight \cup {PointOf(cur)}
    /\ issued' = Append(issued, PointOf(cur))
    /\ pc' = InsertWait
    /\ UNCHANGED <<result, connected, session_present, brokerSession,
                   brokerSub, offline, rx, cur, store, attempts, sleeps,
                   subscribes, nextId, delivered, taken, lost, drops, sentinels>>
    /\ UNCHANGED <<subId, sleptMs, received, disconnects>>
    /\ UNCHANGED pvars

\* the store accepts a write; the awaiting handler returns Ok(true)
InsertOk ==
    /\ \E pt \in inflight :
         /\ inflight' = inflight \ {pt}
         /\ store' = Append(store, pt)
    /\ pc' = IF pc = "insert" THEN "recv" ELSE pc
    /\ UNCHANGED <<result, connected, session_present, brokerSession,
                   brokerSub, offline, rx, cur, attempts, sleeps, subscribes,
                   nextId, delivered, taken, lost, drops, sentinels>>
    /\ UNCHANGED <<subId, sleptMs, received, issued, disconnects>>
    /\ UNCHANGED pvars

\* the store rejects a write; the awaiting handler returns the mapped error
InsertErr ==
    /\ \E pt \in inflight : inflight' = inflight \ {pt}
    /\ IF pc = "insert"
         THEN /\ pc' = OnHandlerErr("err_store").pc
              /\ result' = OnHandlerErr("err_store").result
         ELSE UNCHANGED <<pc, result>>
    /\ UNCHANGED <<connected, session_present, brokerSession, brokerSub,
                   offline, rx, cur, store, attempts, sleeps, subscribes,
                   nextId, delivered, taken, lost, drops, sentinels>>
    /\ UNCHANGED <<subId, sleptMs, received, issued, disconnects>>
    /\ UNCHANGED pvars

\* The connected case continues the loop instead of breaking.
SentinelBranch_continue(conn) == IF conn THEN "recv" ELSE "rc_sleep"

\* try_reconnect is evaluated first, whatever is_connected() says.
SentinelBranch_always(conn) == "rc_sleep"

\* else if cli.is_connected() || !try_reconnect(&cli) { break; }
\* first operand: connected means break, without evaluating try_reconnect
SentinelBranch(conn) == IF conn THEN "after_loop" ELSE "rc_sleep"

SentinelCheck ==
    /\ pc = "sentinel"
    /\ pc' = SentinelBranch(connected)
    /\ IF pc' = "rc_sleep"
         THEN attempts' = 0 /\ sleeps' = 0 /\ sleptMs' = 0
         ELSE UNCHANGED <<attempts, sleeps, sleptMs>>
    /\ UNCHANGED <<result, connected, session_present, brokerSession,
                   brokerSub, offline, rx, cur, inflight, store, subscribes,
                   nextId, delivered, taken, lost, drops, sentinels>>
    /\ UNCHANGED <<subId, received, issued, disconnects>>
    /\ UNCHANGED pvars

(* ---------------- relay: try_reconnect ---------------- *)
\* The delay grows with the number of attempts made (a backoff).
SleepDelay_backoff(n) == RetryDelayMs * (n + 1)

\* Duration::from_millis(5000): the same delay before every attempt
SleepDelay(n) == RetryDelayMs

\* std::thread::sleep(Duration::from_millis(5000));
ReconnectSleep ==
    /\ pc = "rc_sleep"
    /\ sleeps' = sleeps + 1
    /\ sleptMs' = sleptMs + SleepDelay(attempts)
    /\ pc' = "rc_attempt"
    /\ UNCHANGED <<result, connected, session_present, brokerSession,
                   brokerSub, offline, rx, cur, inflight, store, attempts,
                   subscribes, nextId, delivered, taken, lost, drops, sentinels>>
    /\ UNCHANGED <<subId, received, issued, disconnects>>
    /\ UNCHANGED pvars

\* The range is inclusive (0..=12): a thirteenth attempt is made.
TryReconnectStep_inclusive(ok, n) ==
    IF ok THEN "true" ELSE IF n <= MaxAttempts THEN "again" ELSE "false"

\* One pass of `for _ in 0..12` after its reconnect call, n calls made so far:
\* return true, go round again, or fall out of the loop and return false.
TryReconnectStep(ok, n) ==
    IF ok THEN "true" ELSE IF n < MaxAttempts THEN "again" ELSE "false"

\* The negation is missing: break on try_reconnect.
AfterReconnect_unnegated(ret) ==
    CASE ret = "true" -> "after_loop"
      [] ret = "false" -> "recv"
      [] OTHER -> "rc_sleep"

\* second operand of the loop's condition: break on !try_reconnect
AfterReconnect(ret) ==
    CASE ret = "true" -> "recv"
      [] ret = "false" -> "after_loop"
      [] OTHER -> "rc_sleep"

\* cli.reconnect().is_ok(): the response, session_present included, is dropped
ReconnectOk ==
    /\ pc = "rc_attempt"
    /\ attempts' = attempts + 1
    /\ Resume
    /\ pc' = AfterReconnect(TryReconnectStep(TRUE, attempts'))
    /\ UNCHANGED <<result, brokerSub, cur, inflight, store, sleeps, nextId,
                   taken, lost, drops, sentinels>>
    /\ UNCHANGED <<subId, sleptMs, received, issued, disconnects>>
    /\ UNCHANGED pvars

ReconnectErr ==
    /\ pc = "rc_attempt"
    /\ attempts' = attempts + 1
    /\ pc' = AfterReconnect(TryReconnectStep(FALSE, attempts'))
    /\ UNCHANGED <<result, connected, session_present, brokerSession,
                   brokerSub, offline, rx, cur, inflight, store, sleeps,
                   subscribes, nextId, delivered, taken, lost, drops, sentinels>>
    /\ UNCHANGED <<subId, sleptMs, received, issued, disconnects>>
    /\ UNCHANGED pvars

(* ---------------- relay: shutdown ---------------- *)
\* The disconnect is made whatever is_connected() says.
ShutdownBranch_always(conn) == "disconnect"

\* if cli.is_connected() { .. disconnect .. }
ShutdownBranch(conn) == IF conn THEN "disconnect" ELSE "exit_ok"

\* if cli.is_connected() { ... cli.disconnect(None)?; }  Ok(())
AfterLoop ==
    /\ pc = "after_loop"
    /\ pc' = ShutdownBranch(connected)
    /\ result' = (IF pc' = "exit_ok" THEN "ok" ELSE result)
    /\ UNCHANGED <<connected, session_present, brokerSession, brokerSub,
                   offline, rx, cur, inflight, store, attempts, sleeps,
                   subscribes, nextId, delivered, taken, lost, drops, sentinels>>
    /\ UNCHANGED <<subId, sleptMs, received, issued, disconnects>>
    /\ UNCHANGED pvars

\* What main does with an Err from disconnect: `cli.disconnect(None)?`
OnDisconnectErr == [pc |-> "exit_err", result |-> "err_disconnect"]

DisconnectOk ==
    /\ pc = "disconnect"
    /\ disconnects' = disconnects + 1
    /\ connected' = FALSE
    /\ pc' = "exit_ok"
    /\ result' = "ok"
    /\ UNCHANGED <<session_present, brokerSession, brokerSub, offline, rx, cur,
                   inflight, store, attempts, sleeps, subscribes, nextId,
                   delivered, taken, lost, drops, sentinels>>
    /\ UNCHANGED <<subId, sleptMs, received, issued>>
    /\ UNCHANGED pvars

DisconnectErr ==
    /\ pc = "disconnect"
    /\ disconnects' = disconnects + 1
    /\ pc' = OnDisconnectErr.pc
    /\ result' = OnDisconnectErr.result
    /\ UNCHANGED <<connected, session_present, brokerSession, brokerSub,
                   offline, rx, cur, inflight, store, attempts, sleeps,
                   subscribes, nextId, delivered, taken, lost, drops, sentinels>>
    /\ UNCHANGED <<subId, sleptMs, received, issued>>
    /\ UNCHANGED pvars

(* ---------------- producer: main loop ---------------- *)
\* The publish is made whether or not the sensor read succeeded.
AfterRead_always(ok) == "publish"

\* perform_measurement(delay).map_err(..)?: an Err returns from
\* read_and_submit_measurement before anything is published.
AfterRead(ok) == IF ok THEN "publish" ELSE "failed"

\* The error is returned from main with `?`: the loop ends.
OnCycleErr_fatal == "exit"

\* if let Err(e) = read_and_submit_measurement(..) { println!(..) }:
\* the error is printed and the loop goes on to its sleep.
OnCycleErr == "sleep"

\* sensor.perform_measurement(delay) returns a reading; .into() converts it
PMeasureOk(r) ==
    /\ ppc = "measure"
    /\ sensorCalls' = sensorCalls + 1
    /\ reading' = r
    /\ measurement' = FromDht11(r)
    /\ readOk' = "ok"
    /\ ppc' = AfterRead(TRUE)
    /\ UNCHANGED <<publishCalls, plog, cycles, sleptS, outbox>>
    /\ UNCHANGED rvars

\* sensor.perform_measurement(delay) fails
PMeasureErr ==
    /\ ppc = "measure"
    /\ sensorCalls' = sensorCalls + 1
    /\ readOk' = "err"
    /\ ppc' = AfterRead(FALSE)
    /\ UNCHANGED <<reading, measurement, publishCalls, plog, cycles, sleptS,
                   outbox>>
    /\ UNCHANGED rvars

\* to_string (which cannot fail for two f32 fields), MessageBuilder ..
\* qos(1), client.publish(msg)? succeeds
PPublishOk ==
    /\ ppc = "publish"
    /\ publishCalls' = publishCalls + 1
    /\ outbox' = Append(outbox, to_string(measurement))
    /\ ppc' = "sleep"
    /\ UNCHANGED <<reading, measurement, readOk, sensorCalls, plog, cycles,
                   sleptS>>
    /\ UNCHANGED rvars

\* client.publish(msg)? fails
PPublishErr ==
    /\ ppc = "publish"
    /\ publishCalls' = publishCalls + 1
    /\ ppc' = "failed"
    /\ UNCHANGED <<reading, measurement, readOk, sensorCalls, plog, cycles,
                   sleptS, outbox>>
    /\ UNCHANGED rvars

\* main: println!("Error reading or submitting measurement: {:?}", e)
PLogErr ==
    /\ ppc = "failed"
    /\ plog' = plog + 1
    /\ ppc' = OnCycleErr
    /\ UNCHANGED <<reading, measurement, readOk, sensorCalls, publishCalls,
                   cycles, sleptS, outbox>>
    /\ UNCHANGED rvars

\* std::thread::sleep(Duration::from_secs(check_interval_seconds)); the next
\* pass of `loop` starts a new cycle
PSleep ==
    /\ ppc = "sleep"
    /\ cycles < MaxCycles
    /\ sleptS' = sleptS + CheckIntervalSeconds
    /\ cycles' = cycles + 1
    /\ readOk' = "none"
    /\ sensorCalls' = 0
    /\ publishCalls' = 0
    /\ ppc' = "measure"
    /\ UNCHANGED <<reading, measurement, plog, outbox>>
    /\ UNCHANGED rvars

PNext ==
    \/ \E r \in Raws : PMeasureOk(r)
    \/ PMeasureErr
    \/ PPublishOk
    \/ PPublishErr
    \/ PLogErr
    \/ PSleep

(* ---------------- specification ---------------- *)
Next ==
    \/ \E p \in Payloads : BrokerDeliver(p)
    \/ \E p \in Payloads : BrokerStoreOffline(p)
    \/ \E p \in Payloads : BrokerDropOffline(p)
    \/ BrokerExpireSession
    \/ TransportDrop
    \/ TransportSentinel
    \/ ConnectOk
    \/ ConnectFail
    \/ SubscribeOk
    \/ SubscribeFail
    \/ Recv
    \/ HandlerDecodeErr
    \/ HandlerInsert
    \/ InsertOk
    \/ InsertErr
    \/ SentinelCheck
    \/ ReconnectSleep
    \/ ReconnectOk
    \/ ReconnectErr
    \/ AfterLoop
    \/ DisconnectOk
    \/ DisconnectErr

Spec == Init /\ [][Next]_vars

\* the producer on its own, the relay not started
ProducerInit == Init /\ ~brokerSession

ProducerSpec == ProducerInit /\ [][PNext]_vars

(* ---------------- properties ---------------- *)
InReconnect == pc \in {"rc_sleep", "rc_attempt"}

\* position of id i in the transport's delivery order
PosIn(seq, i) == CHOOSE k \in 1..Len(seq) : seq[k] = i

\* C1: a message that fails to decode produces an error for that message
\* only and never ends the consume loop (and with it the process).
C1_DecodeErrorIsolated == ~(pc = "exit_err" /\ result = "err_decode")

\* C2: while the relay consumes on a live connection, the connection that
\* reported session_present = false was followed by exactly one subscribe,
\* the one that reported true by none, and the home/sensors subscription is
\* registered.
C2_SubscribedWhileConsuming ==
    (pc \in {"recv", "handler", "insert"} /\ connected) =>
        /\ subscribes = (IF session_present THEN 0 ELSE 1)
        /\ brokerSub

\* C3 (as claimed): a None item received while is_connected() is true makes
\* the loop go on to receive the next item.
C3_ConnectedSentinelContinues ==
    [][(pc = "sentinel" /\ connected /\ pc' # pc) => pc' = "recv"]_vars

\* C3 (amended): a None item received while is_connected() is true ends the
\* consume loop (break); the relay goes on to its shutdown code.
C3_ConnectedSentinelBreaks ==
    [][(pc = "sentinel" /\ connected /\ pc' # pc) => pc' = "after_loop"]_vars

C3_Witness == pc = "disconnect" /\ connected /\ sentinels = 1

\* C4: after a None item with is_connected() false the relay enters
\* try_reconnect; the loop ends exactly when the twelfth attempt has failed,
\* and an attempt that succeeds puts the relay back at the loop head, running.
C4_ConnectionLossOutcome ==
    [][/\ (pc = "sentinel" /\ ~connected /\ pc' # pc) => pc' = "rc_sleep"
       /\ (pc = "rc_attempt" /\ pc' # pc) =>
            /\ pc' \in {"recv", "rc_sleep", "after_loop"}
            /\ (pc' = "after_loop") <=> (~connected' /\ attempts' = MaxAttempts)
            /\ connected' <=> (pc' = "recv")
            /\ result' = "running"]_vars

\* three failed attempts, then the fourth succeeds and the loop resumes
C4_Witness == pc = "recv" /\ connected /\ attempts = 4 /\ result = "running"

\* C5: one try_reconnect makes at most 12 attempts, returns at the first
\* attempt that succeeds, returns false only after 12 failed attempts, and
\* terminates: inside it the relay can always step and every step of it
\* increases sleeps + attempts, which never exceeds 24.
C5_BoundedReconnect ==
    /\ [](/\ attempts <= MaxAttempts
          /\ sleeps + attempts <= 2 * MaxAttempts
          /\ InReconnect => (attempts < MaxAttempts /\ ENABLED (ReconnectSleep \/ ReconnectErr)))
    /\ [][/\ (InReconnect /\ pc' # pc) => sleeps' + attempts' = sleeps + attempts + 1
          /\ (pc = "rc_attempt" /\ connected') => (pc' = "recv" /\ attempts' = attempts + 1)
          /\ (InReconnect /\ pc' = "after_loop") => (attempts' = MaxAttempts /\ ~connected')]_vars

C5_Witness == pc = "after_loop" /\ attempts = MaxAttempts /\ sleeps = MaxAttempts /\ ~connected

\* C6: once the relay has reconnected and resumed its session, no message
\* published to home/sensors while it was down has been discarded.
C6_NoLossAcrossDisconnect ==
    (pc = "recv" /\ connected /\ session_present /\ attempts > 0) => lost = {}

\* C7: a failed store write is reported for that message and never ends the
\* consume loop.
C7_StoreErrorRecoverable == ~(pc = "exit_err" /\ result = "err_store")

\* C8: messages are taken in delivery order, at most one store write is in
\* flight, none is in flight when the next item is taken, and the store
\* receives the points in delivery order.
C8_OrderedNoPipelining ==
    /\ Cardinality(inflight) <= 1
    /\ pc \in {"recv", "handler"} => inflight = {}
    /\ Len(taken) <= Len(delivered)
    /\ taken = SubSeq(delivered, 1, Len(taken))
    /\ \A i, j \in 1..Len(store) :
         i < j => PosIn(delivered, store[i].id) < PosIn(delivered, store[j].id)
    /\ \A pt \in inflight : \A i \in 1..Len(store) :
         PosIn(delivered, store[i].id) < PosIn(delivered, pt.id)

C8_Witness == Len(store) = 2 /\ pc = "recv"

\* C9: a None item received while is_connected() is true never starts
\* try_reconnect: no sleep and no reconnect attempt is made for it.
C9_NoReconnectWhileConnected ==
    [][(pc = "sentinel" /\ connected /\ pc' # pc) =>
          /\ ~InReconnect'
          /\ sleeps' = sleeps
          /\ attempts' = attempts]_vars

C9_Witness == pc = "after_loop" /\ connected /\ sleeps = 0 /\ attempts = 0

\* C10: a failed graceful disconnect is not fatal: the relay never ends with
\* the disconnect error as its result.
C10_DisconnectErrorNotFatal == ~(pc = "exit_err" /\ result = "err_disconnect")

\* number of insert_points calls made for message id i
IssuedFor(i) == Cardinality({k \in 1..Len(issued) : issued[k].id = i})

\* C11: after the initial connect the relay subscribes to home/sensors with
\* subscription identifier 1 exactly once when no session was resumed and
\* not at all when one was, and no message is taken before that.
C11_InitialSubscription ==
    /\ [](/\ subscribes <= 1
          /\ pc \in {"connect", "subscribe"} => (received = <<>> /\ taken = <<>>)
          /\ pc = "subscribe" => (~session_present /\ subscribes = 0))
    /\ [][/\ (pc = "connect" /\ connected') =>
               /\ pc' = (IF session_present' THEN "recv" ELSE "subscribe")
               /\ subscribes' = 0
          /\ (pc = "subscribe" /\ pc' = "recv") =>
               /\ subscribes' = 1
               /\ subId' = SubscriptionId
               /\ brokerSub'
               /\ received' = <<>>]_vars

C11_Witness ==
    /\ pc = "recv" /\ ~session_present /\ subscribes = 1
    /\ subId = SubscriptionId /\ received = <<>> /\ drops = 0

\* C12: a failed initial connect or initial subscribe ends the process with
\* that error at once; try_reconnect is never entered and no item is ever
\* taken from the inbound stream.
C12_StartupFailureFatal ==
    /\ [](result \in {"err_connect", "err_subscribe"} =>
            /\ pc = "exit_err"
            /\ attempts = 0 /\ sleeps = 0
            /\ received = <<>> /\ issued = <<>>)
    /\ [][/\ (pc = "connect" /\ ~connected' /\ pc' # pc) =>
               (pc' = "exit_err" /\ result' = "err_connect")
          /\ (pc = "subscribe" /\ pc' \notin {"subscribe", "recv"}) =>
               (pc' = "exit_err" /\ result' = "err_subscribe")
          /\ pc = "exit_err" => pc' = "exit_err"]_vars

C12_Witness == pc = "exit_err" /\ result = "err_connect" /\ ~connected

\* C13: a sensor read error or a publish error is printed and the producer
\* goes on to its sleep and the next cycle; the loop never ends, and every
\* cycle, failed or not, is followed by the same sleep and the same start.
C13_ProducerNeverStops ==
    /\ [](/\ ppc \in {"measure", "publish", "failed", "sleep"}
          /\ sleptS = cycles * CheckIntervalSeconds
          /\ (ppc # "sleep" \/ cycles < MaxCycles) => ENABLED PNext)
    /\ [][/\ ppc = "failed" => (ppc' = "sleep" /\ plog' = plog + 1)
          /\ ppc = "sleep" =>
               /\ ppc' = "measure"
               /\ sleptS' = sleptS + CheckIntervalSeconds
               /\ sensorCalls' = 0 /\ publishCalls' = 0 /\ readOk' = "none"]_vars

\* two failed cycles, and the third has started
C13_Witness == plog = 2 /\ cycles = 2 /\ ppc = "measure"

\* C14: in every cycle the sensor is called once and at most one publish is
\* made; the publish is made exactly when the sensor read succeeded.
C14_PerCycleEffects ==
    /\ sensorCalls <= 1
    /\ publishCalls <= 1
    /\ ppc \in {"publish", "failed", "sleep"} => sensorCalls = 1
    /\ readOk = "err" => publishCalls = 0
    /\ ppc \in {"failed", "sleep"} =>
         publishCalls = (IF readOk = "ok" THEN 1 ELSE 0)

C14_Witness ==
    /\ ppc = "sleep" /\ readOk = "err" /\ sensorCalls = 1 /\ publishCalls = 0
    /\ cycles = 1

\* C15 (as claimed): the raw reading (212, 655) converts to temperature
\* 50.96 and humidity 65.5.
C15_Scenario1AsClaimed ==
    (readOk = "ok" /\ reading = [temperature |-> 212, humidity |-> 655]) =>
        measurement = [temperature |-> 5096, humidity |-> 655]

\* C15 (amended): the raw reading (212, 655) converts to temperature 70.16
\* and humidity 65.5, and that is what is published.
C15_Scenario1 ==
    /\ []((readOk = "ok" /\ reading = [temperature |-> 212, humidity |-> 655]) =>
            measurement = [temperature |-> 7016, humidity |-> 655])
    /\ [][(ppc = "publish" /\ ppc' = "sleep"
            /\ reading = [temperature |-> 212, humidity |-> 655]) =>
              /\ Len(outbox') = Len(outbox) + 1
              /\ outbox'[Len(outbox')].temperature = 7016
              /\ outbox'[Len(outbox')].humidity = 655]_vars

C15_Witness ==
    /\ readOk = "ok" /\ reading = [temperature |-> 212, humidity |-> 655]
    /\ ppc = "sleep" /\ outbox # <<>>

\* C16: every message taken by the relay has exactly one insert_points call,
\* with one point of the same room, temperature and humidity, if it decodes,
\* and none if it does not; every point issued or stored belongs to a
\* message that was received.
C16_OnePointPerValidMessage ==
    /\ \A k \in 1..Len(received) :
         /\ IssuedFor(received[k].id) =
              (IF Decodes(received[k].payload) /\ ~(pc = "handler" /\ k = Len(received))
                 THEN 1 ELSE 0)
         /\ \A j \in 1..Len(issued) :
              issued[j].id = received[k].id =>
                /\ issued[j].room = received[k].payload.room
                /\ issued[j].temperature = received[k].payload.temperature
                /\ issued[j].humidity = received[k].payload.humidity
    /\ \A j \in 1..Len(issued) : \E k \in 1..Len(received) : received[k].id = issued[j].id
    /\ \A j \in 1..Len(store) : \E k \in 1..Len(issued) : issued[k] = store[j]
    /\ \A pt \in inflight : \E k \in 1..Len(issued) : issued[k] = pt

C16_Witness == Len(received) = 2 /\ Len(issued) = 2 /\ Len(store) = 2

\* C17: every reconnect attempt is preceded by exactly one sleep of 5000 ms:
\* k attempts have k sleeps, 5000 ms each, and never more than 12.
C17_ConstantDelay ==
    /\ sleptMs = sleeps * RetryDelayMs
    /\ sleeps <= MaxAttempts
    /\ pc = "rc_attempt" => sleeps = attempts + 1
    /\ pc # "rc_attempt" => sleeps = attempts

C17_Witness ==
    pc = "recv" /\ connected /\ attempts = 3 /\ sleeps = 3 /\ sleptMs = 3 * RetryDelayMs

\* C18: what the producer publishes has no room field and the relay's
\* decoder rejects it: such a message ends in a decode error and never in a
\* store write.
C18_ProducerPayloadRejected ==
    /\ \A r \in Raws : ~Decodes(to_string(FromDht11(r)))
    /\ \A k \in 1..Len(received) :
         ~received[k].payload.has_room =>
            /\ IssuedFor(received[k].id) = 0
            /\ (pc # "handler" \/ k < Len(received)) =>
                 (pc = "exit_err" /\ result = "err_decode")
    /\ \A j \in 1..Len(store) : store[j].room # ""

C18_Witness ==
    pc = "exit_err" /\ result = "err_decode" /\ cur.payload = NoRoomPayload

\* C19: cli.disconnect is called at most once, only from the code after the
\* loop and only when is_connected() was true there; the exit after twelve
\* failed attempts and the exit by a handler error make no disconnect call.
C19_DisconnectDiscipline ==
    /\ [](/\ disconnects <= 1
          /\ result \in {"err_decode", "err_store", "err_connect", "err_subscribe"} =>
               disconnects = 0)
    /\ [][/\ disconnects' # disconnects =>
               (pc = "disconnect" /\ disconnects' = disconnects + 1 /\ pc' \in {"exit_ok", "exit_err"})
          /\ (pc' = "disconnect" /\ pc # "disconnect") => (pc = "after_loop" /\ connected)
          /\ (pc = "rc_attempt" /\ pc' = "after_loop") => ~connected'
          /\ (connected' /\ ~connected) => pc \in {"connect", "rc_attempt"}
          /\ (pc = "after_loop" /\ ~connected /\ pc' # pc) =>
               (pc' = "exit_ok" /\ disconnects' = 0)]_vars

C19_Witness == pc = "exit_ok" /\ disconnects = 1 /\ result = "ok"

====
